---- MODULE Spec2Model ----
(***************************************************************************)
(* Model of the recommendation backend in src/app.py: the topic-overlap    *)
(* scorer, the history boost, and the JSON activity store with the         *)
(* handlers /recommend, /complete, /next-topic and /admin/popular.         *)
(*                                                                         *)
(* Strings are sequences of code points, so that strip(), lower() and the  *)
(* ordering used by sort() are computed and not assumed.  JSON values are  *)
(* tagged records: [str |-> s], [num |-> n], [list |-> <<...>>], None.     *)
(*                                                                         *)
(* Spec runs the handlers one at a time, each as one step.  SpecConc runs  *)
(* /recommend and /complete on two threads, with load_activity and         *)
(* save_activity as separate steps; read_text and write_text are atomic.   *)
(* The 'youtube' part of the /recommend response (an external lookup) is   *)
(* left out of the responses.                                              *)
(***************************************************************************)
EXTENDS Integers, Sequences, FiniteSets, TLC

VARIABLES store, req, resp, pc, creq, local, cresp, started

vars == <<store, req, resp, pc, creq, local, cresp, started>>

seqVars == <<req, resp>>

concVars == <<pc, creq, local, cresp, started>>

----------------------------------------------------------------------------
(* Bounds of the model *)

\* longest topic history a user accumulates
MaxHist == 3

\* longest 'topics' array of a request
MaxReqLen == 2

\* number of requests the interleaved specification starts
MaxStarted == 3

----------------------------------------------------------------------------
(* Strings *)

Range(s) == {s[i] : i \in DOMAIN s}

\* the ASCII code points str.isspace() accepts
Whitespace == {9, 10, 11, 12, 13, 28, 29, 30, 31, 32}

\* str.strip()
Strip(s) ==
  LET keep == {i \in DOMAIN s : s[i] \notin Whitespace}
  IN IF keep = {} THEN <<>>
     ELSE LET first == CHOOSE i \in keep : \A j \in keep : i <= j
              last == CHOOSE i \in keep : \A j \in keep : j <= i
          IN SubSeq(s, first, last)

\* str.lower() on ASCII
Lower(s) == [i \in DOMAIN s |-> IF s[i] \in 65..90 THEN s[i] + 32 ELSE s[i]]

\* a < b for Python strings: lexicographic by code point
StrLess(a, b) ==
  \E i \in 1..Len(b) :
     /\ i - 1 <= Len(a)
     /\ \A j \in 1..(i - 1) : a[j] = b[j]
     /\ (i > Len(a) \/ a[i] < b[i])

\* sorted(list(a_set)) for a set of strings
SortedStrings(S) ==
  LET rank(x) == Cardinality({y \in S : StrLess(y, x)}) + 1
  IN [k \in 1..Cardinality(S) |-> CHOOSE x \in S : rank(x) = k]

----------------------------------------------------------------------------
(* JSON values *)

None == [null |-> TRUE]

Str(s) == [str |-> s]

Num(n) == [num |-> n]

List(l) == [list |-> l]

IsStr(v) == "str" \in DOMAIN v

IsList(v) == "list" \in DOMAIN v

\* Python truthiness of a JSON value
Truthy(v) ==
  IF IsStr(v) THEN v.str # <<>>
  ELSE IF IsList(v) THEN v.list # <<>>
  ELSE IF "num" \in DOMAIN v THEN v.num # 0
  ELSE FALSE

\* dict.get(key)
Get(d, key) == IF key \in DOMAIN d THEN d[key] ELSE None

\* (d.get(key) or '')
GetOrEmpty(d, key) == IF Truthy(Get(d, key)) THEN Get(d, key).str ELSE <<>>

----------------------------------------------------------------------------
(* String literals of the source and of the requests *)

python == <<112, 121, 116, 104, 111, 110>>

web == <<119, 101, 98>>

flask == <<102, 108, 97, 115, 107>>

django == <<100, 106, 97, 110, 103, 111>>

data_tag == <<100, 97, 116, 97>>

pandas == <<112, 97, 110, 100, 97, 115>>

javascript == <<106, 97, 118, 97, 115, 99, 114, 105, 112, 116>>

react == <<114, 101, 97, 99, 116>>

frontend == <<102, 114, 111, 110, 116, 101, 110, 100>>

node == <<110, 111, 100, 101>>

backend == <<98, 97, 99, 107, 101, 110, 100>>

FlaskBasics == <<70, 108, 97, 115, 107, 32, 66, 97, 115, 105, 99, 115>>

DjangoOverview == <<68, 106, 97, 110, 103, 111, 32, 79, 118, 101, 114, 118, 105, 101, 119>>

PandasIntro == <<80, 97, 110, 100, 97, 115, 32, 73, 110, 116, 114, 111>>

ReactDocs == <<82, 101, 97, 99, 116, 32, 68, 111, 99, 115>>

NodeGuides == <<78, 111, 100, 101, 46, 106, 115, 32, 71, 117, 105, 100, 101, 115>>

SAMPLE_RESOURCES ==
  << [title |-> FlaskBasics, description |-> "Learn web development with Flask",
      link |-> "https://flask.palletsprojects.com/", tags |-> <<python, web, flask>>],
     [title |-> DjangoOverview, description |-> "Batteries-included web framework",
      link |-> "https://www.djangoproject.com/", tags |-> <<python, web, django>>],
     [title |-> PandasIntro, description |-> "Data analysis library",
      link |-> "https://pandas.pydata.org/", tags |-> <<python, data_tag, pandas>>],
     [title |-> ReactDocs, description |-> "Build UIs with React",
      link |-> "https://react.dev/", tags |-> <<javascript, react, frontend>>],
     [title |-> NodeGuides, description |-> "Server-side JS runtime",
      link |-> "https://nodejs.org/en/learn", tags |-> <<javascript, node, backend>>] >>

----------------------------------------------------------------------------
(* 4.1 Topic-overlap scorer *)

\* variant of NormalizedList without lower()
NormalizedList_NoLower(topics) ==
  LET keep == SelectSeq(topics, LAMBDA t : IsStr(t) /\ Strip(t.str) # <<>>)
  IN [i \in DOMAIN keep |-> Strip(keep[i].str)]

\* t.strip().lower() for every string t of the list with a non-empty strip
NormalizedList(topics) ==
  LET keep == SelectSeq(topics, LAMBDA t : IsStr(t) /\ Strip(t.str) # <<>>)
  IN [i \in DOMAIN keep |-> Lower(Strip(keep[i].str))]

normalized_topics(topics) == Range(NormalizedList(topics))

\* {str(tag).lower() for tag in r.get("tags", [])}
TagSet(r) == {Lower(r.tags[i]) : i \in DOMAIN r.tags}

\* the sort key (-score, title)
ScoreKeyLess(x, y) ==
  x.score > y.score \/ (x.score = y.score /\ StrLess(x.title, y.title))

\* list.sort(key=lambda x: (-x["score"], x["title"])): stable, ascending keys
StableSort(s) ==
  LET rank(i) == Cardinality({j \in DOMAIN s :
                     \/ ScoreKeyLess(s[j], s[i])
                     \/ ~ScoreKeyLess(s[i], s[j]) /\ j < i}) + 1
  IN [k \in DOMAIN s |-> s[CHOOSE i \in DOMAIN s : rank(i) = k]]

\* len(tags.intersection(normalized_topics))
Overlap(r, normalized) == Cardinality(TagSet(r) \cap normalized)

Item(r, score) ==
  [title |-> r.title, description |-> r.description, link |-> r.link, score |-> score]

score_resources_by_topics(resources, topics) ==
  LET normalized == normalized_topics(topics)
      hit == SelectSeq(resources, LAMBDA r : Overlap(r, normalized) > 0)
      result == [i \in DOMAIN hit |-> Item(hit[i], Overlap(hit[i], normalized))]
  IN IF normalized = {} THEN <<>> ELSE StableSort(result)

----------------------------------------------------------------------------
(* 4.3 Activity recorder.  The activity file holds one JSON document: a    *)
(* function from normalized email to a user record.                        *)

\* the default award of record_completion
points_award == 10

\* { 'topics': [], 'completed': [], 'points': 0 }
NewUser == [topics |-> <<>>, completed |-> <<>>, points |-> 0]

\* data.get(email) or { 'topics': [], 'completed': [], 'points': 0 }
UserOf(data, email) == IF email \in DOMAIN data THEN data[email] ELSE NewUser

\* data[email] = user
Put(data, email, user) ==
  [e \in DOMAIN data \cup {email} |-> IF e = email THEN user ELSE data[e]]

\* json.loads(ACTIVITY_FILE.read_text() or '{}')
load_activity(file) == file

\* variant of save_activity that merges into the file: the records of the
\* file that data does not hold are kept
save_activity_Merge(file, data) ==
  [e \in DOMAIN file \cup DOMAIN data |-> IF e \in DOMAIN data THEN data[e] ELSE file[e]]

\* ACTIVITY_FILE.write_text(json.dumps(data, indent=2)): the whole document
save_activity(file, data) == data

\* variant of record_user_topics that starts from a fresh record
record_user_topics_Reset(data, email, topics) ==
  Put(data, email,
      [NewUser EXCEPT !.topics = UserOf(data, email).topics \o NormalizedList(topics)])

\* the document record_user_topics saves, from the document it loaded
record_user_topics(data, email, topics) ==
  LET user == UserOf(data, email)
  IN Put(data, email, [user EXCEPT !.topics = @ \o NormalizedList(topics)])

\* variant of get_user_topic_counts that counts every topic once
get_user_topic_counts_Presence(data, email) ==
  [t \in Range(UserOf(data, email).topics) |-> 1]

get_user_topic_counts(data, email) ==
  LET topics == UserOf(data, email).topics
  IN [t \in Range(topics) |-> Cardinality({i \in DOMAIN topics : topics[i] = t})]

\* variant of CompletedUser that awards the points on every call
CompletedUser_Reaward(user, title) ==
  [user EXCEPT !.completed = SortedStrings(Range(user.completed) \cup {title}),
               !.points = @ + points_award]

\* the user record record_completion builds and returns
CompletedUser(user, title) ==
  LET completed == Range(user.completed)
  IN IF title \notin completed
     THEN [user EXCEPT !.completed = SortedStrings(completed \cup {title}),
                       !.points = @ + points_award]
     ELSE [user EXCEPT !.completed = SortedStrings(completed)]

\* the document record_completion saves, from the document it loaded
record_completion(data, email, title) ==
  Put(data, email, CompletedUser(UserOf(data, email), title))

----------------------------------------------------------------------------
(* 4.2 History boost of /recommend *)

\* variant of Bonus weighted by the number of tags in the history
Bonus_Weighted(r, user_counts) == Cardinality(TagSet(r) \cap DOMAIN user_counts)

\* bonus = 1 if any(tag in user_counts for tag in tags) else 0
Bonus(r, user_counts) == IF TagSet(r) \cap DOMAIN user_counts # {} THEN 1 ELSE 0

\* variant of BoostedList that also takes the resources recs does not hold
BoostedList_Reintroduce(recs, user_counts) ==
  LET scoreOf(r) == IF \E i \in DOMAIN recs : recs[i].title = r.title
                    THEN recs[CHOOSE i \in DOMAIN recs : recs[i].title = r.title].score
                    ELSE 0
      gain(r) == IF TagSet(r) \cap DOMAIN user_counts # {} THEN 1 ELSE 0
      shown == SelectSeq(SAMPLE_RESOURCES, LAMBDA r : scoreOf(r) + gain(r) > 0)
  IN [i \in DOMAIN shown |->
        [title |-> shown[i].title, description |-> shown[i].description,
         link |-> shown[i].link, score |-> scoreOf(shown[i]) + gain(shown[i])]]

\* the loop over SAMPLE_RESOURCES: the entries of recs, in catalog order, boosted
BoostedList(recs, user_counts) ==
  LET inRecs == SelectSeq(SAMPLE_RESOURCES,
                   LAMBDA r : \E i \in DOMAIN recs : recs[i].title = r.title)
      base(r) == recs[CHOOSE i \in DOMAIN recs :
                        recs[i].title = r.title /\ \A j \in 1..(i - 1) : recs[j].title # r.title]
  IN [i \in DOMAIN inRecs |->
        [base(inRecs[i]) EXCEPT !.score = @ + Bonus(inRecs[i], user_counts)]]

\* variant of Boost without the sort after boosting
Boost_Unsorted(recs, user_counts) ==
  IF DOMAIN user_counts # {} THEN BoostedList(recs, user_counts) ELSE recs

\* recs after the 'if user_counts:' block
Boost(recs, user_counts) ==
  IF DOMAIN user_counts # {}
  THEN StableSort(BoostedList(recs, user_counts))
  ELSE recs

----------------------------------------------------------------------------
(* Request parsing of the handlers *)

\* (data.get('email') or '').strip().lower()
EmailOf(body) == Lower(Strip(GetOrEmpty(body, "email")))

\* (data.get('title') or '').strip()
TitleOf(body) == Strip(GetOrEmpty(body, "title"))

\* topics of /recommend after the single-'topic' fallback
TopicsOf(body) ==
  LET topics == IF "topics" \in DOMAIN body THEN body.topics ELSE List(<<>>)
  IN IF ~Truthy(topics) /\ IsStr(Get(body, "topic")) THEN List(<<body.topic>>)
     ELSE topics

BadRequest(msg) == [status |-> 400, error |-> msg]

\* /recommend records topics: the body passes validation and names a user
Records(body) == IsList(TopicsOf(body)) /\ EmailOf(body) # <<>>

\* the response of /recommend; counted is the document get_user_topic_counts loads
RecommendResponse(counted, body) ==
  IF ~IsList(TopicsOf(body)) THEN BadRequest("topics must be a list")
  ELSE LET topics == TopicsOf(body).list
           email == EmailOf(body)
           user_counts == IF email # <<>> THEN get_user_topic_counts(counted, email)
                          ELSE <<>>
           recs == score_resources_by_topics(SAMPLE_RESOURCES, topics)
       IN [status |-> 200, recommendations |-> Boost(recs, user_counts)]

CompleteValid(body) == EmailOf(body) # <<>> /\ TitleOf(body) # <<>>

\* the response of /complete; saved is the document record_completion saved
CompleteResponse(saved, body) ==
  IF ~CompleteValid(body) THEN BadRequest("email and title are required")
  ELSE LET user == saved[EmailOf(body)]
       IN [status |-> 200, ok |-> TRUE, points |-> user.points, completed |-> user.completed]

\* the response of /next-topic
NextTopicResponse(data, args) ==
  IF EmailOf(args) = <<>> THEN BadRequest("email is required")
  ELSE LET counts == get_user_topic_counts(data, EmailOf(args))
           least(a, b) == counts[a] < counts[b] \/ (counts[a] = counts[b] /\ StrLess(a, b))
       IN IF DOMAIN counts = {} THEN [status |-> 200, next |-> python]
          ELSE [status |-> 200,
                next |-> CHOOSE t \in DOMAIN counts : \A u \in DOMAIN counts \ {t} : least(t, u)]

\* count_by_title of /admin/popular
CountByTitle(data) ==
  LET titles == UNION {Range(data[e].completed) : e \in DOMAIN data}
  IN [t \in titles |->
        Cardinality({p \in UNION {{e} \X DOMAIN data[e].completed : e \in DOMAIN data} :
                        data[p[1]].completed[p[2]] = t})]

\* variant of PopularKeyLess with the count ascending
PopularKeyLess_Ascending(x, y) ==
  x.completed < y.completed \/ (x.completed = y.completed /\ StrLess(x.title, y.title))

\* the sort key (-completed, title)
PopularKeyLess(x, y) ==
  x.completed > y.completed \/ (x.completed = y.completed /\ StrLess(x.title, y.title))

\* the response of /admin/popular
PopularResponse(data) ==
  LET count_by_title == CountByTitle(data)
      entry(t) == [title |-> t, completed |-> count_by_title[t]]
      rank(t) == Cardinality({u \in DOMAIN count_by_title :
                                 PopularKeyLess(entry(u), entry(t))}) + 1
  IN [status |-> 200,
      popular |-> [k \in 1..Cardinality(DOMAIN count_by_title) |->
                     entry(CHOOSE t \in DOMAIN count_by_title : rank(t) = k)]]

----------------------------------------------------------------------------
(* Requests.  A body is the parsed JSON object (or the query arguments):   *)
(* a record that holds only the fields the client sent.                    *)

PythonPadded == <<32, 80, 121, 116, 104, 111, 110, 32>>   \* " Python "

RawEmails == { <<32, 32>>,                                 \* "  "
               <<32, 65, 64, 66, 46, 99, 111, 109, 32>>,   \* " A@B.com "
               <<99, 64, 100, 46, 105, 111>> }             \* "c@d.io"

RawTitles == { <<32, 32>>,                                                        \* "  "
               <<32, 70, 108, 97, 115, 107, 32, 66, 97, 115, 105, 99, 115, 32>>,  \* " Flask Basics "
               DjangoOverview }

RawItems == { Str(PythonPadded), Str(web) }

SeqsUpTo(S, n) == UNION {[1..k -> S] : k \in 0..n}

EmailParts == {<<>>} \cup {[email |-> Str(e)] : e \in RawEmails}

TitleParts == {<<>>} \cup {[title |-> Str(t)] : t \in RawTitles}

TopicsParts ==
  {<<>>}
    \cup {[topics |-> List(l)] : l \in SeqsUpTo(RawItems, MaxReqLen)}
    \cup {[topics |-> List(<<Num(7), Str(web)>>)], [topics |-> List(<<Str(<<32>>), Num(7)>>)]}
    \cup {[topic |-> Str(web)], [topics |-> List(<<>>), topic |-> Str(PythonPadded)]}
    \cup {[topics |-> Str(web)], [topics |-> None]}
    \cup {[topics |-> Str(<<>>), topic |-> Str(web)]}

RecommendBodies == {e @@ t : e \in EmailParts, t \in TopicsParts}

CompleteBodies == {e @@ t : e \in EmailParts, t \in TitleParts}

QueryArgs == EmailParts

\* the guard that keeps the histories of the model finite
HistoryFits(data) ==
  Cardinality(UNION {{e} \X DOMAIN data[e].topics : e \in DOMAIN data}) <= MaxHist

----------------------------------------------------------------------------
(* Requests handled one at a time: each action is a whole handler.  A      *)
(* client sends a request, may send the same request once more, and then   *)
(* takes the response.                                                     *)

Procs == {1, 2}

NoDoc == [none |-> TRUE]

NoReq == [op |-> "none"]

NoResp == [status |-> 0]

Init ==
  /\ store = <<>>
  /\ req = NoReq
  /\ resp = NoResp
  /\ pc = [p \in Procs |-> "idle"]
  /\ creq = [p \in Procs |-> NoReq]
  /\ local = [p \in Procs |-> NoDoc]
  /\ cresp = [p \in Procs |-> NoResp]
  /\ started = 0

\* the client sends op(body): a first time, or the request just answered again
Send(op, body) ==
  \/ /\ req = NoReq
     /\ req' = [op |-> op, body |-> body, attempt |-> 1]
  \/ /\ req.op = op /\ req.body = body /\ req.attempt = 1
     /\ req' = [op |-> op, body |-> body, attempt |-> 2]

\* POST /recommend
Recommend(body) ==
  /\ Send("recommend", body)
  /\ IF Records(body)
     THEN LET data == record_user_topics(load_activity(store), EmailOf(body), TopicsOf(body).list)
          IN HistoryFits(data) /\ store' = save_activity(store, data)
     ELSE store' = store
  /\ resp' = RecommendResponse(load_activity(store'), body)
  /\ UNCHANGED concVars

\* POST /complete
Complete(body) ==
  /\ Send("complete", body)
  /\ store' = IF CompleteValid(body)
              THEN save_activity(store, record_completion(load_activity(store), EmailOf(body), TitleOf(body)))
              ELSE store
  /\ resp' = CompleteResponse(store', body)
  /\ UNCHANGED concVars

\* GET /next-topic
NextTopic(args) ==
  /\ Send("next-topic", args)
  /\ resp' = NextTopicResponse(load_activity(store), args)
  /\ UNCHANGED <<store, concVars>>

\* GET /admin/popular
AdminPopular ==
  /\ Send("popular", <<>>)
  /\ resp' = PopularResponse(load_activity(store))
  /\ UNCHANGED <<store, concVars>>

\* the client takes the response
Done ==
  /\ req # NoReq
  /\ req' = NoReq
  /\ resp' = NoResp
  /\ UNCHANGED <<store, concVars>>

Next ==
  \/ \E body \in RecommendBodies : Recommend(body)
  \/ \E body \in CompleteBodies : Complete(body)
  \/ \E args \in QueryArgs : NextTopic(args)
  \/ AdminPopular
  \/ Done

Spec == Init /\ [][Next]_vars

----------------------------------------------------------------------------
(* Requests that interleave.  Flask serves each request on its own thread  *)
(* and the activity file has no lock: a handler's load_activity and        *)
(* save_activity are separate steps, and other handlers run in between.    *)

ConcEmails == { <<32, 65, 64, 66, 46, 99, 111, 109, 32>>, <<99, 64, 100, 46, 105, 111>> }

ConcRequests ==
  {[op |-> "complete", body |-> [email |-> Str(e), title |-> Str(t)]] :
       e \in ConcEmails, t \in {FlaskBasics, DjangoOverview}}
    \cup {[op |-> "recommend", body |-> [email |-> Str(e), topics |-> List(<<Str(web)>>)]] :
            e \in ConcEmails}
    \cup {[op |-> "recommend", body |-> [topics |-> List(<<Str(web)>>)]],
          [op |-> "complete", body |-> [email |-> Str(<<32, 32>>), title |-> Str(FlaskBasics)]]}

\* the request reads or writes the activity file
TouchesStore(r) ==
  IF r.op = "recommend" THEN Records(r.body) ELSE CompleteValid(r.body)

\* the response of a request that returns before it loads the file
EarlyResponse(r) ==
  IF r.op = "recommend" THEN RecommendResponse(<<>>, r.body)
  ELSE BadRequest("email and title are required")

\* the document the handler of r builds from the document it loaded
Updated(r, data) ==
  IF r.op = "recommend"
  THEN record_user_topics(data, EmailOf(r.body), TopicsOf(r.body).list)
  ELSE record_completion(data, EmailOf(r.body), TitleOf(r.body))

\* a request arrives at thread p and is parsed and validated
CStart(p, r) ==
  /\ pc[p] = "idle"
  /\ started < MaxStarted
  /\ started' = started + 1
  /\ creq' = [creq EXCEPT ![p] = r]
  /\ IF TouchesStore(r)
     THEN pc' = [pc EXCEPT ![p] = "load"] /\ UNCHANGED cresp
     ELSE pc' = [pc EXCEPT ![p] = "done"] /\ cresp' = [cresp EXCEPT ![p] = EarlyResponse(r)]
  /\ UNCHANGED <<store, local, seqVars>>

\* data = load_activity()
CLoad(p) ==
  /\ pc[p] = "load"
  /\ local' = [local EXCEPT ![p] = load_activity(store)]
  /\ pc' = [pc EXCEPT ![p] = "save"]
  /\ UNCHANGED <<store, creq, cresp, started, seqVars>>

\* data[email] = user; save_activity(data)
CSave(p) ==
  /\ pc[p] = "save"
  /\ LET data == Updated(creq[p], local[p])
     IN /\ store' = save_activity(store, data)
        /\ local' = [local EXCEPT ![p] = data]
        /\ IF creq[p].op = "complete"
           THEN /\ cresp' = [cresp EXCEPT ![p] = CompleteResponse(data, creq[p].body)]
                /\ pc' = [pc EXCEPT ![p] = "done"]
           ELSE /\ pc' = [pc EXCEPT ![p] = "count"]
                /\ UNCHANGED cresp
  /\ UNCHANGED <<creq, started, seqVars>>

\* user_counts = get_user_topic_counts(email), scoring and boost of /recommend
CCount(p) ==
  /\ pc[p] = "count"
  /\ cresp' = [cresp EXCEPT ![p] = RecommendResponse(load_activity(store), creq[p].body)]
  /\ pc' = [pc EXCEPT ![p] = "done"]
  /\ UNCHANGED <<store, local, creq, started, seqVars>>

\* the response is sent and the thread is free again
CDone(p) ==
  /\ pc[p] = "done"
  /\ pc' = [pc EXCEPT ![p] = "idle"]
  /\ creq' = [creq EXCEPT ![p] = NoReq]
  /\ cresp' = [cresp EXCEPT ![p] = NoResp]
  /\ local' = [local EXCEPT ![p] = NoDoc]
  /\ UNCHANGED <<store, started, seqVars>>

NextConc ==
  \/ \E p \in Procs, r \in ConcRequests : CStart(p, r)
  \/ \E p \in Procs : CLoad(p)
  \/ \E p \in Procs : CSave(p)
  \/ \E p \in Procs : CCount(p)
  \/ \E p \in Procs : CDone(p)

SpecConc == Init /\ [][NextConc]_vars

----------------------------------------------------------------------------
(* Properties *)

Answered(op) == req.op = op /\ resp.status = 200

\* the catalog resource a recommendation was built from
ResourceOf(title) ==
  SAMPLE_RESOURCES[CHOOSE i \in DOMAIN SAMPLE_RESOURCES : SAMPLE_RESOURCES[i].title = title]

\* the users whose completed list holds the title
Completers(title) == {e \in DOMAIN store : title \in Range(store[e].completed)}

Occurrences(seq, x) == Cardinality({i \in DOMAIN seq : seq[i] = x})

Titles(recs) == [i \in DOMAIN recs |-> recs[i].title]

\* C1: a second /complete with the same email and title, sent after the
\* first was answered, returns the same response (points and completed) and
\* leaves the stored record of the user, and the whole document, unchanged.
C1_CompletionIdempotent ==
  [][(req'.op = "complete" /\ req'.attempt = 2)
       => /\ resp' = resp
          /\ store' = store
          /\ CompleteValid(req'.body) =>
               store'[EmailOf(req'.body)] = store[EmailOf(req'.body)]]_vars

C1_Witness ==
  /\ Answered("complete")
  /\ req.attempt = 2
  /\ resp.points = 20
  /\ Len(resp.completed) = 2

\* the points of every user account for the distinct completed titles
C2_PointsAccount ==
  \A e \in DOMAIN store :
     /\ store[e].points = 10 * Cardinality(Range(store[e].completed))
     /\ Len(store[e].completed) = Cardinality(Range(store[e].completed))

\* C2: with requests handled one at a time from the empty store, every user
\* has points = 10 x the number of distinct completed titles, completed has
\* no duplicate, and no step lowers a user's points or removes a user.
C2_PointsInvariant ==
  /\ []C2_PointsAccount
  /\ [][\A e \in DOMAIN store :
           e \in DOMAIN store' /\ store'[e].points >= store[e].points]_vars

C2_Witness ==
  /\ Answered("complete")
  /\ req.attempt = 2
  /\ \E e \in DOMAIN store : store[e].points = 20 /\ store[e].topics # <<>>
  /\ \E e \in DOMAIN store : store[e].points = 10

\* C4: a recommendation of /recommend is always a resource with a tag among
\* the normalized requested topics, boosted or not; no normalized topic, no
\* recommendation.
C4_NoZeroOverlap ==
  Answered("recommend") =>
    LET wanted == normalized_topics(TopicsOf(req.body).list)
        recs == resp.recommendations
    IN /\ \A i \in DOMAIN recs : TagSet(ResourceOf(recs[i].title)) \cap wanted # {}
       /\ wanted = {} => recs = <<>>

\* a boosted answer that leaves out a resource whose tags are in the history
C4_Witness ==
  /\ Answered("recommend")
  /\ EmailOf(req.body) # <<>>
  /\ resp.recommendations # <<>>
  /\ \E i \in DOMAIN SAMPLE_RESOURCES :
        /\ TagSet(SAMPLE_RESOURCES[i]) \cap Range(store[EmailOf(req.body)].topics) # {}
        /\ \A j \in DOMAIN resp.recommendations :
              resp.recommendations[j].title # SAMPLE_RESOURCES[i].title

\* C5: the recommendations are in descending score order, equal scores in
\* ascending title order, with and without the boost.
C5_Sorted ==
  Answered("recommend") =>
    LET recs == resp.recommendations
    IN \A i \in 1..(Len(recs) - 1) :
          \/ recs[i].score > recs[i + 1].score
          \/ recs[i].score = recs[i + 1].score /\ StrLess(recs[i].title, recs[i + 1].title)

\* a boosted answer with a tie and a strict descent
C5_Witness ==
  /\ Answered("recommend")
  /\ EmailOf(req.body) # <<>>
  /\ Len(resp.recommendations) = 3
  /\ resp.recommendations[1].score = 3
  /\ resp.recommendations[2].score = 3
  /\ resp.recommendations[3].score = 2

\* C6: /next-topic answers "python" for a user without topic history, and
\* otherwise a topic of the history with the least number of occurrences,
\* the alphabetically smallest of those.
C6_NextTopic ==
  Answered("next-topic") =>
    LET hist == UserOf(store, EmailOf(req.body)).topics
    IN IF hist = <<>> THEN resp.next = python
       ELSE /\ resp.next \in Range(hist)
            /\ \A u \in Range(hist) :
                  \/ Occurrences(hist, resp.next) < Occurrences(hist, u)
                  \/ /\ Occurrences(hist, resp.next) = Occurrences(hist, u)
                     /\ ~StrLess(u, resp.next)

\* history {python: 2, web: 1}: the answer is web
C6_Witness ==
  /\ Answered("next-topic")
  /\ resp.next = web
  /\ Occurrences(store[EmailOf(req.body)].topics, python) = 2

\* C7: /admin/popular lists exactly the titles some user completed, each
\* once, with the number of users that completed it, in descending count
\* and then ascending title order.
C7_Popular ==
  Answered("popular") =>
    LET pop == resp.popular
    IN /\ {pop[i].title : i \in DOMAIN pop} = UNION {Range(store[e].completed) : e \in DOMAIN store}
       /\ \A i, j \in DOMAIN pop : pop[i].title = pop[j].title => i = j
       /\ \A i \in DOMAIN pop : pop[i].completed = Cardinality(Completers(pop[i].title))
       /\ \A i \in 1..(Len(pop) - 1) :
             \/ pop[i].completed > pop[i + 1].completed
             \/ pop[i].completed = pop[i + 1].completed /\ StrLess(pop[i].title, pop[i + 1].title)

\* two users completed Flask Basics, one of them Django Overview
C7_Witness ==
  /\ Answered("popular")
  /\ Len(resp.popular) = 2
  /\ resp.popular[1] = [title |-> FlaskBasics, completed |-> 2]
  /\ resp.popular[2] = [title |-> DjangoOverview, completed |-> 1]

C8_RecordTopicsStep ==
  (req'.op = "recommend" /\ Records(req'.body)) =>
     LET e == EmailOf(req'.body)
         items == TopicsOf(req'.body).list
         kept == SelectSeq(items, LAMBDA t : IsStr(t) /\ Strip(t.str) # <<>>)
     IN /\ DOMAIN store' = DOMAIN store \cup {e}
        /\ store'[e].topics =
              UserOf(store, e).topics \o [i \in DOMAIN kept |-> Lower(Strip(kept[i].str))]
        /\ store'[e].completed = UserOf(store, e).completed
        /\ store'[e].points = UserOf(store, e).points
        /\ \A u \in DOMAIN store \ {e} : store'[u] = store[u]

C8_RecordCompletionStep ==
  (req'.op = "complete" /\ CompleteValid(req'.body)) =>
     LET e == EmailOf(req'.body)
     IN /\ DOMAIN store' = DOMAIN store \cup {e}
        /\ store'[e].topics = UserOf(store, e).topics
        /\ \A u \in DOMAIN store \ {e} : store'[u] = store[u]

\* C8: /recommend with an email appends the non-empty normalized topics of
\* the request to that user's history, in order and with duplicates, creates
\* the record if absent and keeps completed and points; /complete keeps the
\* topics; neither touches the record of another user.
C8_Frame == [][C8_RecordTopicsStep /\ C8_RecordCompletionStep]_vars

\* a user with completions gets a topic again, next to another user
C8_Witness ==
  /\ Answered("recommend")
  /\ Records(req.body)
  /\ LET e == EmailOf(req.body)
     IN /\ Len(store[e].topics) >= 2
        /\ store[e].topics[1] = store[e].topics[2]
        /\ store[e].points = 10
        /\ DOMAIN store # {e}

\* C9: /recommend answers 400 whenever the body has a 'topics' value that is
\* not an array.
C9_NonArrayRejected ==
  (req.op = "recommend" /\ "topics" \in DOMAIN req.body /\ ~IsList(req.body.topics))
     => resp.status = 400

\* C10: with requests handled one at a time, /recommend for a user (the
\* handler's email is not empty) gives every recommendation the bonus: its
\* score is the tag overlap plus 1, and the titles come in the order of the
\* same request without email.
C10_AlwaysBoosted ==
  (Answered("recommend") /\ EmailOf(req.body) # <<>>) =>
    LET recs == resp.recommendations
        items == TopicsOf(req.body).list
        anonymous == [k \in DOMAIN req.body \ {"email"} |-> req.body[k]]
    IN /\ \A i \in DOMAIN recs :
             recs[i].score = Overlap(ResourceOf(recs[i].title), normalized_topics(items)) + 1
       /\ Titles(recs) = Titles(RecommendResponse(<<>>, anonymous).recommendations)

\* a user whose history held only python asks for web
C10_Witness ==
  /\ Answered("recommend")
  /\ EmailOf(req.body) # <<>>
  /\ Len(resp.recommendations) = 2
  /\ resp.recommendations[1].score = 2
  /\ store[EmailOf(req.body)].topics = <<python, web>>

\* C3: a save writes the document its handler loaded, with only the
\* handler's own user changed: whatever other handlers saved since the load
\* is overwritten.
C3_LastWriterWins ==
  [][\A p \in Procs : (pc[p] = "save" /\ pc'[p] # "save") =>
        LET e == EmailOf(creq[p].body)
        IN /\ DOMAIN store' = DOMAIN local[p] \cup {e}
           /\ \A u \in DOMAIN store' \ {e} : store'[u] = local[p][u]
           /\ store'[e] = Updated(creq[p], local[p])[e]]_vars

\* the update of an answered request is missing from the document
Lost(p) ==
  /\ pc[p] = "done"
  /\ TouchesStore(creq[p])
  /\ LET e == EmailOf(creq[p].body)
     IN \/ e \notin DOMAIN store
        \/ /\ creq[p].op = "complete"
           /\ TitleOf(creq[p].body) \notin Range(store[e].completed)
        \/ /\ creq[p].op = "recommend"
           /\ web \notin Range(store[e].topics)

\* both requests were answered; the document holds the update of one only
C3_Witness ==
  \E p, q \in Procs :
     /\ Lost(p)
     /\ pc[q] = "done" /\ TouchesStore(creq[q]) /\ ~Lost(q)
     /\ EmailOf(creq[p].body) # EmailOf(creq[q].body)

====
